---- MODULE Spec2Model ----
(***************************************************************************)
(* Model of values/src/context.rs: ResolverContext::resolve, the           *)
(* resolution of one Dimension value against a ResolverContext.            *)
(*                                                                         *)
(* One call of resolve is followed step by step through its combinator     *)
(* chain  forward.next().and_then(..).or_else(..).map(..)  so that every   *)
(* pull on the walker is a step of its own.  The walker belongs to the     *)
(* constraint (an external collaborator): what a pull answers is chosen    *)
(* when the pull happens, which is all a lazy sequence lets the caller     *)
(* see.                                                                    *)
(***************************************************************************)
EXTENDS Integers, Sequences, FiniteSets

VARIABLES dim,       \* the Dimension value passed to resolve
          ctx,       \* self.ctx: reference, min, max
          pc,        \* position in resolve
          walker,    \* NoWalker, or the walker's two positions
          pulls,     \* every next() made on the walker, in order, with its answer
          acc,       \* the Option<Interval> flowing through the combinator chain
          result,    \* the Option<Output> returned
          warnings   \* number of warn! records emitted

vars == <<dim, ctx, pc, walker, pulls, acc, result, warnings>>

\* Moments are seconds 0..MaxT (an explicit end may be MaxT + 1).
MaxT == 1

----------------------------------------------------------------------------
(* Option<T> *)
None == [some |-> FALSE]
Some(x) == [some |-> TRUE, val |-> x]
OptionOf(S) == {None} \cup {Some(x) : x \in S}

----------------------------------------------------------------------------
(* The moment library's Interval, as far as resolve uses it. *)
Grains == {"Second", "Minute"}
GrainLen(g) == IF g = "Second" THEN 1 ELSE 60

Moments == 0..MaxT

\* An explicit end lies after the start.
WellFormed(i) == i.end.some => i.end.val > i.start

Intervals ==
    {i \in [start : Moments, end : OptionOf(1..(MaxT + 1)), grain : Grains] :
        WellFormed(i)}

\* Interval::end_moment: the explicit end, else start plus one grain.
end_moment(i) == IF i.end.some THEN i.end.val ELSE i.start + GrainLen(i.grain)

\* Interval::intersect(..).is_some() over the half-open spans.
Intersects(a, b) ==
    IF a.start <= b.start THEN end_moment(a) > b.start
                          ELSE end_moment(b) > a.start

----------------------------------------------------------------------------
(* Context and ResolverContext *)

\* Context::new(now, min, max): the three intervals, unchecked.
Context_new(now, min, max) == [reference |-> now, min |-> min, max |-> max]

\* ResolverContext::new: no restriction on the three intervals.
ResolverContext_new(now, min, max) == [ctx |-> Context_new(now, min, max)]

\* The contexts a caller can hand to resolve: any reference; the window is
\* either collapsed on the reference or spans the whole horizon.
Windows(now) ==
    {<<now, now>>,
     <<[start |-> 0, end |-> None, grain |-> "Second"],
       [start |-> MaxT, end |-> None, grain |-> "Second"]>>}

ResolverContexts ==
    UNION {{ResolverContext_new(now, w[1], w[2]) : w \in Windows(now)} :
              now \in Intervals}

----------------------------------------------------------------------------
(* Dimension: the values resolve is given *)

Precisions == {"Exact", "Approximate"}
DatetimeKinds == {"Date", "Time", "DateTime", "DatePeriod"}
BoundValues == {[tag |-> "Start"]} \cup {[tag |-> "End", only_interval |-> b] : b \in BOOLEAN}
Directions == {"After", "Before"}
BoundedDirections == [bound : BoundValues, direction : Directions]

\* form.not_immediate() answers an Option<bool>.
Forms == [not_immediate : OptionOf(BOOLEAN)]

DatetimeValues ==
    [kind : {"Datetime"}, form : Forms, direction : OptionOf(BoundedDirections),
     precision : Precisions, latent : BOOLEAN, datetime_kind : DatetimeKinds]

Scalars == {1, 2}
Units == {"USD", "EUR"}
Degrees == {"celsius", "fahrenheit"}
Periods == {"2 hours", "1 day"}

NumberValues ==
    [kind : {"Number"}, number : [tag : {"Integer", "Float"}, value : Scalars]]
OrdinalValues == [kind : {"Ordinal"}, value : Scalars]
AmountOfMoneyValues ==
    [kind : {"AmountOfMoney"}, value : Scalars, precision : Precisions, unit : OptionOf(Units)]
TemperatureValues ==
    [kind : {"Temperature"}, value : Scalars, unit : OptionOf(Degrees), latent : BOOLEAN]
DurationValues == [kind : {"Duration"}, period : Periods, precision : Precisions]
PercentageValues == [kind : {"Percentage"}, value : Scalars]
\* Dimension variants resolve has no arm for.
OtherValues == [kind : {"UnitOfDuration", "Cycle", "RelativeMinute"}]

Dimensions ==
    DatetimeValues \cup NumberValues \cup OrdinalValues \cup AmountOfMoneyValues
        \cup TemperatureValues \cup DurationValues \cup PercentageValues
        \cup OtherValues

----------------------------------------------------------------------------
(* Temporal resolution: the pieces of the combinator chain *)

\* datetime_value.form.not_immediate().unwrap_or(false)
not_immediate(dv) ==
    IF dv.form.not_immediate.some THEN dv.form.not_immediate.val ELSE FALSE

\* Variants of the test, as slips in the closure would make it.
SkipsFirstWithoutIntersect(dv, reference, h) == not_immediate(dv)
SkipsFirstWithoutFlag(dv, reference, h) == Intersects(h, reference)
SkipsFirstNever(dv, reference, h) == FALSE

\* The test of the and_then closure: drop the first forward candidate h.
SkipsFirst(dv, reference, h) == not_immediate(dv) /\ Intersects(h, reference)

\* Variants: a chain that never falls back, and one that always pulls backward.
FallsBackNever(a) == FALSE
FallsBackAlways(a) == TRUE

\* or_else runs its closure on None only.
FallsBack(a) == ~a.some

\* Variant: the only_interval guard forgotten.
AnchorWithoutGuard(bound, interval) ==
    IF bound.tag = "Start" THEN interval.start ELSE end_moment(interval)

\* The anchor moment of a directed value.
Anchor(bound, interval) ==
    CASE bound.tag = "Start" -> interval.start
      [] bound.tag = "End" /\ bound.only_interval ->
            IF interval.end.some THEN interval.end.val ELSE interval.start
      [] OTHER -> end_moment(interval)

\* Variant: latent not copied.
DatetimeOutputLatentLost(moment, grain, dv) ==
    [moment |-> moment, grain |-> grain, precision |-> dv.precision,
     latent |-> FALSE, datetime_kind |-> dv.datetime_kind]

DatetimeOutput(moment, grain, dv) ==
    [moment |-> moment, grain |-> grain, precision |-> dv.precision,
     latent |-> dv.latent, datetime_kind |-> dv.datetime_kind]

\* After(payload) / Before(payload); the outer kind is read off the payload.
DirectedOutput(direction, payload) ==
    [tag |-> "DatetimeInterval",
     interval_kind |-> [tag |-> IF direction = "After" THEN "After" ELSE "Before",
                        payload |-> payload],
     datetime_kind |-> payload.datetime_kind]

BetweenOutput(interval, end, dv) ==
    [tag |-> "DatetimeInterval",
     interval_kind |-> [tag |-> "Between", start |-> interval.start, end |-> end,
                        precision |-> dv.precision, latent |-> dv.latent],
     datetime_kind |-> dv.datetime_kind]

PlainOutput(interval, dv) ==
    [tag |-> "Datetime",
     value |-> DatetimeOutput(interval.start, interval.grain, dv)]

\* Variant: a Date or Time kind with a spanning interval answered as a point.
MapIntervalSpanAsPoint(dv, interval) ==
    IF dv.direction.some
    THEN DirectedOutput(dv.direction.val.direction,
             DatetimeOutput(Anchor(dv.direction.val.bound, interval),
                            interval.grain, dv))
    ELSE IF interval.end.some /\ dv.datetime_kind \notin {"Date", "Time"}
         THEN BetweenOutput(interval, interval.end.val, dv)
         ELSE PlainOutput(interval, dv)

\* The map closure: the Output built from the chosen interval.
MapInterval(dv, interval) ==
    IF dv.direction.some
    THEN DirectedOutput(dv.direction.val.direction,
             DatetimeOutput(Anchor(dv.direction.val.bound, interval),
                            interval.grain, dv))
    ELSE IF interval.end.some
         THEN BetweenOutput(interval, interval.end.val, dv)
         ELSE PlainOutput(interval, dv)

\* The map closure calls warn! for a Date or Time kind with a spanning interval.
Warns(dv, interval) ==
    /\ ~dv.direction.some
    /\ interval.end.some
    /\ dv.datetime_kind \in {"Date", "Time"}

----------------------------------------------------------------------------
(* The other arms of the match *)

\* Variant: the Float arm answering an Integer, the money unit dropped.
PassthroughSlip(d) ==
    CASE d.kind = "Number" -> Some([tag |-> "Integer", value |-> d.number.value])
      [] d.kind = "Ordinal" -> Some([tag |-> "Ordinal", value |-> d.value])
      [] d.kind = "AmountOfMoney" ->
            Some([tag |-> "AmountOfMoney", value |-> d.value,
                  precision |-> d.precision, unit |-> None])
      [] d.kind = "Temperature" ->
            Some([tag |-> "Temperature", value |-> d.value, unit |-> d.unit,
                  latent |-> d.latent])
      [] d.kind = "Duration" ->
            Some([tag |-> "Duration", period |-> d.period, precision |-> d.precision])
      [] d.kind = "Percentage" -> Some([tag |-> "Percentage", value |-> d.value])
      [] OTHER -> None

Passthrough(d) ==
    CASE d.kind = "Number" /\ d.number.tag = "Integer" ->
            Some([tag |-> "Integer", value |-> d.number.value])
      [] d.kind = "Number" /\ d.number.tag = "Float" ->
            Some([tag |-> "Float", value |-> d.number.value])
      [] d.kind = "Ordinal" -> Some([tag |-> "Ordinal", value |-> d.value])
      [] d.kind = "AmountOfMoney" ->
            Some([tag |-> "AmountOfMoney", value |-> d.value,
                  precision |-> d.precision, unit |-> d.unit])
      [] d.kind = "Temperature" ->
            Some([tag |-> "Temperature", value |-> d.value, unit |-> d.unit,
                  latent |-> d.latent])
      [] d.kind = "Duration" ->
            Some([tag |-> "Duration", period |-> d.period, precision |-> d.precision])
      [] d.kind = "Percentage" -> Some([tag |-> "Percentage", value |-> d.value])
      [] OTHER -> None

----------------------------------------------------------------------------
(* The walker, seen from resolve *)

NoWalker == [made |-> FALSE]

\* constraint.to_walker(&self.ctx.reference, &self.ctx): both sequences unread.
to_walker(reference, context) == [made |-> TRUE, forward |-> 0, backward |-> 0]

\* The candidates a side has already handed out.
Handed(side) ==
    {pulls[k].item.val : k \in {j \in 1..Len(pulls) :
                                   pulls[j].from = side /\ pulls[j].item.some}}

\* What forward.next() may answer.  In a walker that keeps the documented
\* order (ordered), forward candidates reach the reference or lie after it and
\* come by increasing start.
ForwardAnswers(ordered) ==
    {None} \cup
    {Some(i) : i \in {j \in Intervals :
        ordered => /\ end_moment(j) > ctx.ctx.reference.start
                   /\ \A e \in Handed("forward") : j.start > e.start}}

\* What backward.next() may answer.  In an ordered walker, backward candidates
\* lie before the reference and come by decreasing start.
BackwardAnswers(ordered) ==
    {None} \cup
    {Some(i) : i \in {j \in Intervals :
        ordered => /\ end_moment(j) <= ctx.ctx.reference.start
                   /\ \A e \in Handed("backward") : j.start < e.start}}

\* One next() on a side of the walker, answering item.
Pull(side, item) ==
    /\ walker' = [walker EXCEPT ![side] = @ + 1]
    /\ pulls' = Append(pulls, [from |-> side, item |-> item])
    /\ acc' = item

----------------------------------------------------------------------------
(* resolve *)

Init ==
    /\ dim \in Dimensions
    /\ ctx \in ResolverContexts
    /\ pc = "resolve"
    /\ walker = NoWalker
    /\ pulls = <<>>
    /\ acc = None
    /\ result = None
    /\ warnings = 0

\* Dimension::Datetime arm: the walker is made.
ToWalker ==
    /\ pc = "resolve"
    /\ dim.kind = "Datetime"
    /\ walker' = to_walker(ctx.ctx.reference, ctx.ctx)
    /\ pc' = "forward_next"
    /\ UNCHANGED <<dim, ctx, pulls, acc, result, warnings>>

\* walker.forward.next()
ForwardNext(ordered) ==
    /\ pc = "forward_next"
    /\ \E item \in ForwardAnswers(ordered) : Pull("forward", item)
    /\ pc' = "and_then"
    /\ UNCHANGED <<dim, ctx, result, warnings>>

\* .and_then(|h| ..): on Some(h), either a second forward.next() or Some(h).
AndThen(ordered) ==
    /\ pc = "and_then"
    /\ IF acc.some /\ SkipsFirst(dim, ctx.ctx.reference, acc.val)
       THEN \E item \in ForwardAnswers(ordered) : Pull("forward", item)
       ELSE UNCHANGED <<walker, pulls, acc>>
    /\ pc' = "or_else"
    /\ UNCHANGED <<dim, ctx, result, warnings>>

\* Variant: the immediacy test applied to the backward candidate as well.
OrElseSkipsImmediate(ordered) ==
    /\ pc = "or_else"
    /\ IF FallsBack(acc)
       THEN \E item \in BackwardAnswers(ordered) :
              /\ walker' = [walker EXCEPT !.backward = @ + 1]
              /\ pulls' = Append(pulls, [from |-> "backward", item |-> item])
              /\ acc' = IF item.some /\ SkipsFirst(dim, ctx.ctx.reference, item.val)
                        THEN None ELSE item
       ELSE UNCHANGED <<walker, pulls, acc>>
    /\ pc' = "map"
    /\ UNCHANGED <<dim, ctx, result, warnings>>

\* .or_else(|| walker.backward.next())
OrElse(ordered) ==
    /\ pc = "or_else"
    /\ IF FallsBack(acc)
       THEN \E item \in BackwardAnswers(ordered) : Pull("backward", item)
       ELSE UNCHANGED <<walker, pulls, acc>>
    /\ pc' = "map"
    /\ UNCHANGED <<dim, ctx, result, warnings>>

\* .map(|interval| ..): the value resolve returns.
Map ==
    /\ pc = "map"
    /\ result' = IF acc.some THEN Some(MapInterval(dim, acc.val)) ELSE None
    /\ warnings' = IF acc.some /\ Warns(dim, acc.val) THEN warnings + 1 ELSE warnings
    /\ pc' = "done"
    /\ UNCHANGED <<dim, ctx, walker, pulls, acc>>

\* Every other arm of the match, the catch-all included.
ResolveOther ==
    /\ pc = "resolve"
    /\ dim.kind # "Datetime"
    /\ result' = Passthrough(dim)
    /\ pc' = "done"
    /\ UNCHANGED <<dim, ctx, walker, pulls, acc, warnings>>

\* resolve against any walker at all.
Next ==
    \/ ToWalker
    \/ ForwardNext(FALSE)
    \/ AndThen(FALSE)
    \/ OrElse(FALSE)
    \/ Map
    \/ ResolveOther

Spec == Init /\ [][Next]_vars

\* resolve against walkers that keep the documented order.
NextOrdered ==
    \/ ToWalker
    \/ ForwardNext(TRUE)
    \/ AndThen(TRUE)
    \/ OrElse(TRUE)
    \/ Map
    \/ ResolveOther

SpecOrdered == Init /\ [][NextOrdered]_vars

----------------------------------------------------------------------------
(* Reading a finished call *)

IsForward(p) == p.from = "forward"
IsBackward(p) == p.from = "backward"
Fwd == SelectSeq(pulls, IsForward)
Bwd == SelectSeq(pulls, IsBackward)

Returned == pc = "done"
ReturnedDatetime == pc = "done" /\ dim.kind = "Datetime"
Reference == ctx.ctx.reference

\* The first forward candidate exists, the value is not-immediate and the
\* candidate intersects the reference.
FirstIsImmediate ==
    /\ Len(Fwd) >= 1
    /\ Fwd[1].item.some
    /\ dim.form.not_immediate = Some(TRUE)
    /\ Intersects(Fwd[1].item.val, Reference)

\* The output built from a pull's answer, None for no answer.
Built(item) == IF item.some THEN Some(MapInterval(dim, item.val)) ELSE None

----------------------------------------------------------------------------
(* C1 -- Not-immediate skip.  When the value is not-immediate and the first
   forward candidate intersects the reference, a second forward pull is made
   and, when it answers a candidate, the output is built from that one; in
   every other case with a first forward candidate, the output is built from
   the first and no second pull is made. *)
C1_NotImmediateSkip ==
    (ReturnedDatetime /\ Fwd[1].item.some) =>
        IF FirstIsImmediate
        THEN /\ Len(Fwd) = 2
             /\ Fwd[2].item.some =>
                    /\ acc = Fwd[2].item
                    /\ result = Built(Fwd[2].item)
        ELSE /\ Len(Fwd) = 1
             /\ acc = Fwd[1].item
             /\ result = Built(Fwd[1].item)

C1_Witness ==
    /\ ReturnedDatetime
    /\ FirstIsImmediate
    /\ Len(Fwd) = 2
    /\ Fwd[2].item.some
    /\ Fwd[2].item # Fwd[1].item
    /\ result = Built(Fwd[2].item)
    /\ result # Built(Fwd[1].item)

----------------------------------------------------------------------------
\* Some answer of the walker was a candidate.
CandidateSeen == \E k \in 1..Len(pulls) : pulls[k].item.some

\* The only forward candidate was dropped as immediate.
OnlyCandidateDropped ==
    /\ FirstIsImmediate
    /\ Len(Fwd) = 2
    /\ ~Fwd[2].item.some

(* C2 as stated -- None only when the walker had no candidate in either
   direction: a call whose walker answered a candidate returns Some. *)
C2_NoneOnlyWithoutCandidates ==
    ReturnedDatetime => (CandidateSeen => result.some)

(* C2 as amended -- None is returned exactly when the backward sequence
   answered no candidate and the forward sequence either answered none or
   answered a single one that was dropped as immediate (not_immediate with a
   first candidate intersecting the reference); in every other call the
   result is Some. *)
C2_NoneCases ==
    ReturnedDatetime =>
        (~result.some <=>
            /\ Len(Bwd) = 1
            /\ ~Bwd[1].item.some
            /\ \/ (Len(Fwd) = 1 /\ ~Fwd[1].item.some)
               \/ OnlyCandidateDropped)

C2_Witness ==
    /\ ReturnedDatetime
    /\ OnlyCandidateDropped
    /\ Len(Bwd) = 1
    /\ ~Bwd[1].item.some
    /\ result = None

(* C3 -- Forward before backward.  backward.next() is pulled only after the
   forward side has been pulled and its last answer was no candidate, and
   nothing is pulled after it; a call whose forward side ended on a candidate
   never pulls backward. *)
C3_ForwardBeforeBackward ==
    /\ \A k \in 1..Len(pulls) :
          IsBackward(pulls[k]) =>
              /\ k > 1
              /\ k = Len(pulls)
              /\ IsForward(pulls[k - 1])
              /\ ~pulls[k - 1].item.some
    /\ (ReturnedDatetime /\ Fwd[Len(Fwd)].item.some) => Len(Bwd) = 0

C3_Witness ==
    /\ ReturnedDatetime
    /\ FirstIsImmediate
    /\ Len(Fwd) = 2
    /\ Fwd[2].item.some
    /\ Len(Bwd) = 0
    /\ result.some

(* C4 -- Backward fallback and exhaustion.  When the first forward pull
   answers no candidate, exactly one backward pull follows and it alone
   decides the outcome: the output built from its candidate, whatever
   not_immediate is and whether or not the candidate intersects the
   reference, and None when it answers no candidate either. *)
C4_BackwardFallback ==
    (ReturnedDatetime /\ ~Fwd[1].item.some) =>
        /\ Len(Fwd) = 1
        /\ Len(Bwd) = 1
        /\ acc = Bwd[1].item
        /\ result = Built(Bwd[1].item)

C4_Witness ==
    /\ ReturnedDatetime
    /\ ~Fwd[1].item.some
    /\ Len(Bwd) = 1
    /\ Bwd[1].item.some
    /\ dim.form.not_immediate = Some(TRUE)
    /\ Intersects(Bwd[1].item.val, Reference)
    /\ result = Some(MapInterval(dim, Bwd[1].item.val))

----------------------------------------------------------------------------
\* The interval the output is built from, once one is chosen.
Chosen == acc.val
Directed == ReturnedDatetime /\ result.some /\ dim.direction.some
Undirected == ReturnedDatetime /\ result.some /\ ~dim.direction.some

(* C5 -- Bound and direction selection.  A value with a direction resolves to
   a DatetimeInterval of kind After for direction After and Before for
   direction Before, whose payload carries the chosen interval's grain and,
   as moment: the start for bound Start; the end if present, else the start,
   for End{only_interval: true}; end_moment() for End{only_interval: false}. *)
C5_BoundAndDirection ==
    Directed =>
        LET out == result.val
            b == dim.direction.val.bound
        IN  /\ out.tag = "DatetimeInterval"
            /\ out.interval_kind.tag = dim.direction.val.direction
            /\ out.interval_kind.tag \in {"After", "Before"}
            /\ out.interval_kind.payload.grain = Chosen.grain
            /\ b.tag = "Start" =>
                  out.interval_kind.payload.moment = Chosen.start
            /\ (b.tag = "End" /\ b.only_interval /\ Chosen.end.some) =>
                  out.interval_kind.payload.moment = Chosen.end.val
            /\ (b.tag = "End" /\ b.only_interval /\ ~Chosen.end.some) =>
                  out.interval_kind.payload.moment = Chosen.start
            /\ (b.tag = "End" /\ ~b.only_interval) =>
                  out.interval_kind.payload.moment = end_moment(Chosen)

C5_Witness ==
    /\ Directed
    /\ dim.direction.val = [bound |-> [tag |-> "End", only_interval |-> TRUE],
                            direction |-> "Before"]
    /\ ~Chosen.end.some
    /\ result.val.interval_kind.tag = "Before"
    /\ result.val.interval_kind.payload.moment = Chosen.start
    /\ end_moment(Chosen) # Chosen.start

(* C6 -- Span anomaly passthrough.  A value without direction whose chosen
   interval has an explicit end resolves to Between{start, end} for every
   datetime_kind, and the warning is emitted exactly when the kind is Date or
   Time; without an explicit end it resolves to a plain Datetime at the
   interval's start with the interval's grain. *)
C6_SpanPassthrough ==
    Undirected =>
        LET out == result.val
        IN  IF Chosen.end.some
            THEN /\ out.tag = "DatetimeInterval"
                 /\ out.interval_kind.tag = "Between"
                 /\ out.interval_kind.start = Chosen.start
                 /\ out.interval_kind.end = Chosen.end.val
                 /\ warnings = 1 <=> dim.datetime_kind \in {"Date", "Time"}
                 /\ warnings = 0 <=> dim.datetime_kind \notin {"Date", "Time"}
            ELSE /\ out.tag = "Datetime"
                 /\ out.value.moment = Chosen.start
                 /\ out.value.grain = Chosen.grain

C6_Witness ==
    /\ Undirected
    /\ Chosen.end.some
    /\ dim.datetime_kind = "Time"
    /\ warnings = 1
    /\ result.val.interval_kind.tag = "Between"

(* C7 -- Flags are forwarded unchanged.  Every precision, latent and
   datetime_kind field of a returned output equals the field of the input
   value, and on After/Before outputs the outer datetime_kind equals the
   payload's. *)
C7_FlagsForwarded ==
    (ReturnedDatetime /\ result.some) =>
        LET out == result.val
        IN  IF out.tag = "Datetime"
            THEN /\ out.value.precision = dim.precision
                 /\ out.value.latent = dim.latent
                 /\ out.value.datetime_kind = dim.datetime_kind
            ELSE /\ out.datetime_kind = dim.datetime_kind
                 /\ IF out.interval_kind.tag = "Between"
                    THEN /\ out.interval_kind.precision = dim.precision
                         /\ out.interval_kind.latent = dim.latent
                    ELSE /\ out.interval_kind.payload.precision = dim.precision
                         /\ out.interval_kind.payload.latent = dim.latent
                         /\ out.interval_kind.payload.datetime_kind = dim.datetime_kind
                         /\ out.datetime_kind = out.interval_kind.payload.datetime_kind

C7_Witness ==
    /\ Directed
    /\ dim.latent
    /\ dim.precision = "Approximate"
    /\ dim.datetime_kind = "DatePeriod"
    /\ result.val.interval_kind.payload.latent
    /\ result.val.datetime_kind = "DatePeriod"

----------------------------------------------------------------------------
ReturnedOther == pc = "done" /\ dim.kind # "Datetime"

(* C8 -- Non-temporal passthrough.  A Number, Ordinal, AmountOfMoney,
   Temperature, Duration or Percentage value resolves to Some output of the
   matching variant with the input's fields, a function of the value alone
   (so the same under every context), with no walker made or pulled and no
   warning; every other non-temporal kind resolves to None. *)
C8_Passthrough ==
    ReturnedOther =>
        /\ walker = NoWalker
        /\ pulls = <<>>
        /\ warnings = 0
        /\ dim.kind = "Number" =>
              result = Some([tag |-> dim.number.tag, value |-> dim.number.value])
        /\ dim.kind \in {"Ordinal", "Percentage"} =>
              result = Some([tag |-> dim.kind, value |-> dim.value])
        /\ dim.kind = "AmountOfMoney" =>
              /\ result.some
              /\ result.val.tag = "AmountOfMoney"
              /\ result.val.value = dim.value
              /\ result.val.precision = dim.precision
              /\ result.val.unit = dim.unit
        /\ dim.kind = "Temperature" =>
              /\ result.some
              /\ result.val.tag = "Temperature"
              /\ result.val.value = dim.value
              /\ result.val.unit = dim.unit
              /\ result.val.latent = dim.latent
        /\ dim.kind = "Duration" =>
              /\ result.some
              /\ result.val.tag = "Duration"
              /\ result.val.period = dim.period
              /\ result.val.precision = dim.precision
        /\ dim.kind \notin {"Number", "Ordinal", "Percentage", "AmountOfMoney",
                            "Temperature", "Duration"} =>
              result = None

C8_Witness ==
    /\ ReturnedOther
    /\ dim = [kind |-> "AmountOfMoney", value |-> 2, precision |-> "Approximate",
              unit |-> Some("USD")]
    /\ ctx.ctx.reference.start = MaxT
    /\ ctx.ctx.min # ctx.ctx.reference
    /\ result = Some([tag |-> "AmountOfMoney", value |-> 2,
                      precision |-> "Approximate", unit |-> Some("USD")])

(* C9 -- Bounded pulling.  A call pulls forward at most twice and backward at
   most once, and a finished call has pulled forward at least once; the
   second forward pull is made only for a not-immediate value whose first
   forward candidate intersects the reference; and the only candidate ever
   followed by another pull is that dropped first one. *)
C9_BoundedPulling ==
    /\ Len(Fwd) <= 2
    /\ Len(Bwd) <= 1
    /\ walker.made => (walker.forward = Len(Fwd) /\ walker.backward = Len(Bwd))
    /\ ReturnedDatetime => Len(Fwd) >= 1
    /\ Len(Fwd) = 2 => FirstIsImmediate
    /\ \A k \in 1..(Len(pulls) - 1) :
          pulls[k].item.some => (k = 1 /\ FirstIsImmediate)

C9_Witness ==
    /\ ReturnedDatetime
    /\ Len(Fwd) = 2
    /\ ~Fwd[2].item.some
    /\ Len(Bwd) = 1
    /\ Len(pulls) = 3

(* C10 as stated -- Immediacy exclusion.  For a not-immediate value, the
   interval the output is built from never intersects the reference. *)
C10_NeverImmediate ==
    (ReturnedDatetime /\ not_immediate(dim) /\ result.some) =>
        ~Intersects(Chosen, Reference)

(* C10 as amended -- For a not-immediate value, an output built from the
   first forward candidate comes from an interval that does not intersect the
   reference; a candidate reached by a second pull (the second forward or the
   first backward one) is not tested against the reference. *)
C10_FirstNeverImmediate ==
    (ReturnedDatetime /\ not_immediate(dim) /\ result.some /\ Len(pulls) = 1) =>
        /\ acc = Fwd[1].item
        /\ ~Intersects(Chosen, Reference)

C10_Witness ==
    /\ ReturnedDatetime
    /\ not_immediate(dim)
    /\ result.some
    /\ Len(pulls) = 1
    /\ ~Intersects(Fwd[1].item.val, Reference)
    /\ result = Built(Fwd[1].item)

====
